---- MODULE Spec2Model ----
(***************************************************************************)
(* A model of the TimingRun data model of myWatchTracker.py: the six       *)
(* index-aligned numpy arrays of a timing run, the point cursor, the two   *)
(* shift accumulators and the _original_data dictionary, together with    *)
(* the point editor, the shift tracker, the rate derivation, the           *)
(* concatenation of runs (concatTimingRuns) and the resampling of a run    *)
(* on an evenly spaced time scale (linspaceTime).                          *)
(*                                                                         *)
(* Representation.                                                         *)
(*  - A numpy array is a sequence; Python index i is position i+1.         *)
(*  - A float of the time axis (days) is held as an integer number of      *)
(*    ticks, TicksPerDay ticks to the day; offsets and the two error       *)
(*    signals are floats with integral values (seconds).  On these grids   *)
(*    and magnitudes IEEE double arithmetic is exact, so + and - of the    *)
(*    model are the + and - of the program.                                *)
(*  - unix_time is an int64 array, in seconds.                             *)
(*  - A comment is a sequence of characters; the comment array has a       *)
(*    fixed-width unicode dtype of comment_itemsize characters.            *)
(*  - A Python argument is a record [kind, val], kind in "int", "float",   *)
(*    "str" (a non-numeric string) or "None"; val of a float on the time   *)
(*    axis is in ticks.                                                    *)
(*  - _original_data holds the arrays themselves, not copies: "aliased"    *)
(*    is the set of fields whose array (self._time, ...) is the same       *)
(*    ndarray object as the entry of _original_data, so that an in-place   *)
(*    write reaches both.                                                  *)
(*  - Two names of one Python object: "shared" is the position, in the     *)
(*    list handed to concatTimingRuns or linspaceTime, of the object that  *)
(*    the returned object is (0 when it is an object of its own).          *)
(***************************************************************************)
EXTENDS Integers, Sequences, FiniteSets, TLC

VARIABLES run,      \* the TimingRun object under operation
          rate,     \* the value last returned by the rate property
          lastOp,   \* history: the last call, its arguments and its outcome
          prev,     \* history: the object as it was before the last call
          loaded,   \* history: the six arrays as they were when the object was created
          track,    \* history: the current run of consecutive shift calls
          steps,    \* history: the number of calls made since the file was loaded
          inputs,   \* the objects handed to the last concatTimingRuns or linspaceTime
          given,    \* history: those objects as they were handed over, and what came back
          shared,   \* the position in inputs of the object that run is, or 0
          csv,      \* the file Save2csv has written
          applied,  \* history: the ShiftOffset calls since the last ShiftOffsetReset
          files,    \* the Files object under operation
          file      \* history: the file name last read from a Files object

vars == <<run, rate, lastOp, prev, loaded, track, steps, inputs, given, shared, csv, applied, files, file>>

\* ----------------------------------------------------------------- bounds
MaxSteps == 3       \* most calls made on a loaded store
MaxLen == 3         \* most samples a store holds
MaxDays == 3        \* |time| of a sample, and |time accumulator|, in days
MaxOffset == 6      \* |offset| of a sample, and |offset accumulator|
TicksPerDay == 2    \* resolution of the time axis
UnixStart == 1000000  \* unix time of the first data row of a file
MaxBefore == 1      \* most calls made on a run before it is handed to a module function
MaxWatches == 2      \* most watches in the folder of the files
MaxFiles == 3        \* most files of one watch
MaxMultiplier == 3  \* largest n of linspaceTime

\* ------------------------------------------------------ program constants
SecondsPerDay == 86400

SecondsPerTick == SecondsPerDay \div TicksPerDay
Day == TicksPerDay

\* ---------------------------------------------------------- Python values
PyInt(v) == [kind |-> "int", val |-> v]
PyFloat(v) == [kind |-> "float", val |-> v]
PyStr == [kind |-> "str", val |-> 0]
PyNone == [kind |-> "None", val |-> 0]

\* float(x) and int(x) succeed
IsNumber(x) == x.kind \in {"int", "float"}

Abs(x) == IF x < 0 THEN -x ELSE x
Min2(a, b) == IF a <= b THEN a ELSE b
Max2(a, b) == IF a >= b THEN a ELSE b

\* ----------------------------------------------------------- numpy pieces
\* np.delete(arr, index), 0 <= index < len(arr)
np_delete(arr, index) == SubSeq(arr, 1, index) \o SubSeq(arr, index + 2, Len(arr))

\* np.insert(arr, index, value), 0 <= index <= len(arr)
np_insert(arr, index, value) ==
    SubSeq(arr, 1, index) \o <<value>> \o SubSeq(arr, index + 1, Len(arr))

\* a string stored into a '<U itemsize' array is cut to itemsize characters
astype_U(s, itemsize) == SubSeq(s, 1, Min2(Len(s), itemsize))

\* arr + value, elementwise
np_add(arr, value) == [i \in 1..Len(arr) |-> arr[i] + value]

\* abs(value - arr).argmin(): the first index of the smallest distance
argmin_abs(arr, value) ==
    CHOOSE k \in 0..(Len(arr) - 1) :
        /\ \A j \in 0..(Len(arr) - 1) : Abs(value - arr[k + 1]) <= Abs(value - arr[j + 1])
        /\ \A j \in 0..(k - 1) : Abs(value - arr[j + 1]) > Abs(value - arr[k + 1])

\* ------------------------------------------------------------- the object
Fields == {"time", "offset", "comment", "unix_time", "atomic_clock_error", "ios_clock_offset"}

\* the dictionary built at the end of __init__ (and of concatTimingRuns):
\* its entries are the arrays of the object, not copies
original_data_of(self) ==
    [time |-> self.time, offset |-> self.offset, comment |-> self.comment,
     unix_time |-> self.unix_time, atomic_clock_error |-> self.atomic_clock_error,
     ios_clock_offset |-> self.ios_clock_offset]

\* TimingRun.__init__ followed by a successful _loadFile of a file whose data
\* rows are the given columns
TimingRun(time, offset, comment, unix_time, ace, ico, itemsize) ==
    [class_type |-> "TimingRun",
     time |-> time, offset |-> offset, comment |-> comment,
     comment_itemsize |-> itemsize,
     unix_time |-> unix_time, atomic_clock_error |-> ace,
     ios_clock_offset |-> ico,
     point_index |-> 0, offset_shifted |-> 0, time_shifted |-> 0,
     original_data |-> [time |-> time, offset |-> offset, comment |-> comment,
                        unix_time |-> unix_time, atomic_clock_error |-> ace,
                        ios_clock_offset |-> ico],
     aliased |-> Fields]

\* an in-place write of array f (arr[i] = v, arr += v): it reaches the entry
\* of _original_data too while that entry is the same array
InPlace(self, f, arr) ==
    IF f \in self.aliased
    THEN [self EXCEPT ![f] = arr, !.original_data[f] = arr]
    ELSE [self EXCEPT ![f] = arr]

\* what a call leaves behind: the object and the value returned or the
\* exception raised
Ret(self, ret) == [self |-> self, ret |-> ret]

\* self._time[self._point_index] and the like are defined
CursorValid(self) == self.point_index >= 0 /\ self.point_index < Len(self.time)

\* ------------------------------------------------------------ point editor
\* mutant: the cursor is left where it was
_deletePoint_cursor_stays(self, index) == self

\* the cursor rule at the end of _deletePoint
_deletePoint_cursor(self, index) ==
    IF index >= Len(self.time)
    THEN [self EXCEPT !.point_index = Len(self.time) - 1]
    ELSE self

\* mutant: the guard lets the last point go
_deletePoint_keeps_none(self) == Len(self.time) <= 0

\* the guard of _deletePoint on the number of points
_deletePoint_keeps(self) == Len(self.time) <= 1

_deletePoint(self, index) ==
    LET idx == IF index.kind = "None" THEN PyInt(self.point_index) ELSE index
    IN IF _deletePoint_keeps(self) THEN Ret(self, "False")
       ELSE IF ~IsNumber(idx) THEN Ret(self, "False")
       ELSE IF idx.val < 0 \/ idx.val >= Len(self.time) THEN Ret(self, "False")
       ELSE LET s1 == [self EXCEPT
                         !.time = np_delete(@, idx.val),
                         !.offset = np_delete(@, idx.val),
                         !.comment = np_delete(@, idx.val),
                         !.unix_time = np_delete(@, idx.val),
                         !.atomic_clock_error = np_delete(@, idx.val),
                         !.ios_clock_offset = np_delete(@, idx.val),
                         !.aliased = {}]
            IN Ret(_deletePoint_cursor(s1, idx.val), "True")

\* the point_index setter
point_index_set(self, index) ==
    IF ~IsNumber(index) THEN Ret(self, "None")
    ELSE IF index.val < 0 \/ index.val >= Len(self.time) THEN Ret(self, "None")
    ELSE Ret([self EXCEPT !.point_index = index.val], "None")

\* the point_delete property (getter): the point is read, then deleted
point_delete(self) ==
    IF ~CursorValid(self) THEN Ret(self, "IndexError")
    ELSE LET r == _deletePoint(self, PyNone)
         IN IF r.ret = "True" THEN Ret(r.self, "point") ELSE Ret(r.self, "{}")

\* the point_delete setter
point_delete_set(self, index) ==
    IF ~IsNumber(index) THEN Ret(self, "None")
    ELSE LET i0 == IF index.val < 0 THEN 0 ELSE index.val
             i1 == IF i0 >= Len(self.time) THEN Len(self.time) - 1 ELSE i0
             s1 == point_index_set(self, PyInt(i1)).self
         IN point_delete(s1)

\* mutant: the comment array is not extended
point_insert_arrays_short(self) ==
    LET index == self.point_index
    IN [self EXCEPT
          !.time = np_insert(@, index, self.time[index + 1]),
          !.offset = np_insert(@, index, self.offset[index + 1]),
          !.unix_time = np_insert(@, index, self.unix_time[index + 1]),
          !.atomic_clock_error = np_insert(@, index, self.atomic_clock_error[index + 1]),
          !.ios_clock_offset = np_insert(@, index, self.ios_clock_offset[index + 1]),
          !.aliased = {}]

\* the arrays of point_insert after the six np.insert calls
point_insert_arrays(self) ==
    LET index == self.point_index
    IN [self EXCEPT
          !.time = np_insert(@, index, self.time[index + 1]),
          !.offset = np_insert(@, index, self.offset[index + 1]),
          !.comment = np_insert(@, index, self.comment[index + 1]),
          !.unix_time = np_insert(@, index, self.unix_time[index + 1]),
          !.atomic_clock_error = np_insert(@, index, self.atomic_clock_error[index + 1]),
          !.ios_clock_offset = np_insert(@, index, self.ios_clock_offset[index + 1]),
          !.aliased = {}]

\* mutant: the cursor stays on the original
point_insert_no_advance(self) ==
    IF ~CursorValid(self) THEN Ret(self, "IndexError")
    ELSE Ret(point_insert_arrays(self), "point")

\* the point_insert property
point_insert(self) ==
    IF ~CursorValid(self) THEN Ret(self, "IndexError")
    ELSE LET s1 == point_insert_arrays(self)
             s2 == point_index_set(s1, PyInt(s1.point_index + 1)).self
         IN IF CursorValid(s2) THEN Ret(s2, "point") ELSE Ret(s2, "IndexError")

\* mutant: the unix time of the point is left as it was
point_time_set_alone(self, value) ==
    IF ~IsNumber(value) THEN Ret(self, "None")
    ELSE IF ~CursorValid(self) THEN Ret(self, "IndexError")
    ELSE Ret(InPlace(self, "time", [self.time EXCEPT ![self.point_index + 1] = value.val]),
             "None")

\* the point_time setter
point_time_set(self, value) ==
    IF ~IsNumber(value) THEN Ret(self, "None")
    ELSE IF ~CursorValid(self) THEN Ret(self, "IndexError")
    ELSE LET i == self.point_index + 1
             dvalue == value.val - self.time[i]
             s1 == InPlace(self, "time", [self.time EXCEPT ![i] = value.val])
             s2 == InPlace(s1, "unix_time",
                           [s1.unix_time EXCEPT ![i] = @ + dvalue * SecondsPerTick])
         IN Ret(s2, "None")

\* the time the point_unix_time setter computes is on the tick grid
point_unix_time_on_grid(self, value) ==
    (IsNumber(value) /\ CursorValid(self)) =>
        ((value.val - self.unix_time[self.point_index + 1]) * TicksPerDay) % SecondsPerDay = 0

\* the point_unix_time setter
point_unix_time_set(self, value) ==
    IF ~IsNumber(value) THEN Ret(self, "None")
    ELSE IF ~CursorValid(self) THEN Ret(self, "IndexError")
    ELSE LET i == self.point_index + 1
             dvalue == value.val - self.unix_time[i]
             s1 == InPlace(self, "unix_time", [self.unix_time EXCEPT ![i] = value.val])
             s2 == InPlace(s1, "time",
                           [s1.time EXCEPT ![i] = @ + (dvalue * TicksPerDay) \div SecondsPerDay])
         IN Ret(s2, "None")

\* the point_offset setter
point_offset_set(self, value) ==
    IF ~IsNumber(value) THEN Ret(self, "None")
    ELSE IF ~CursorValid(self) THEN Ret(self, "IndexError")
    ELSE Ret(InPlace(self, "offset",
                     [self.offset EXCEPT ![self.point_index + 1] = value.val]), "None")

\* the point_timing_comment setter
point_timing_comment_set(self, comment) ==
    IF ~CursorValid(self) THEN Ret(self, "IndexError")
    ELSE Ret(InPlace(self, "comment",
                     [self.comment EXCEPT ![self.point_index + 1] =
                         astype_U(comment, self.comment_itemsize)]), "None")

\* the point_atomic_clock_error setter: the item assignment is made on the
\* float64 scalar the getter returns, which raises
point_atomic_clock_error_set(self, value) ==
    IF ~IsNumber(value) THEN Ret(self, "None")
    ELSE IF ~CursorValid(self) THEN Ret(self, "IndexError")
    ELSE Ret(self, "TypeError")

\* the point_ios_clock_offset setter, as above
point_ios_clock_offset_set(self, value) ==
    IF ~IsNumber(value) THEN Ret(self, "None")
    ELSE IF ~CursorValid(self) THEN Ret(self, "IndexError")
    ELSE Ret(self, "TypeError")

\* ----------------------------------------------------------- shift tracker
\* mutant: the offsets are shifted and the accumulator is left as it is
ShiftOffset_untracked(self, value) ==
    IF ~IsNumber(value) THEN Ret(self, "TypeError")
    ELSE Ret(InPlace(self, "offset", np_add(self.offset, value.val)), "None")

\* ShiftOffset: a value float() refuses is reported and then added all the
\* same, which raises before anything is written
ShiftOffset(self, value) ==
    IF ~IsNumber(value) THEN Ret(self, "TypeError")
    ELSE LET s1 == InPlace(self, "offset", np_add(self.offset, value.val))
         IN Ret([s1 EXCEPT !.offset_shifted = @ + value.val], "None")

\* ShiftTime: _time is float64 and takes any number; _unix_time is int64 and
\* "+=" of a Python float raises (casting rule same_kind), after _time was
\* written and before _time_shifted is
ShiftTime(self, value) ==
    IF ~IsNumber(value) THEN Ret(self, "TypeError")
    ELSE LET s1 == InPlace(self, "time", np_add(self.time, value.val))
         IN IF value.kind = "float" THEN Ret(s1, "UFuncTypeError")
            ELSE LET s2 == InPlace(s1, "unix_time",
                                   np_add(s1.unix_time, value.val * SecondsPerTick))
                 IN Ret([s2 EXCEPT !.time_shifted = @ + value.val], "None")

\* mutant: the accumulator is zeroed and the offsets are left shifted
ShiftOffsetReset_keeps_shift(self) == Ret([self EXCEPT !.offset_shifted = 0], "None")

ShiftOffsetReset(self) ==
    LET s1 == InPlace(self, "offset", np_add(self.offset, -self.offset_shifted))
    IN Ret([s1 EXCEPT !.offset_shifted = 0], "None")

\* _time_shifted is a Python int (ShiftTime never gets to add a float to it)
ShiftTimeReset(self) ==
    LET s1 == InPlace(self, "time", np_add(self.time, -self.time_shifted))
        s2 == InPlace(s1, "unix_time",
                      np_add(s1.unix_time, -(self.time_shifted * SecondsPerTick)))
    IN Ret([s2 EXCEPT !.time_shifted = 0], "None")

\* Reset: the attributes are bound to the entries of _original_data again
Reset(self) ==
    Ret([self EXCEPT
           !.time = self.original_data.time,
           !.offset = self.original_data.offset,
           !.comment = self.original_data.comment,
           !.unix_time = self.original_data.unix_time,
           !.atomic_clock_error = self.original_data.atomic_clock_error,
           !.ios_clock_offset = self.original_data.ios_clock_offset,
           !.aliased = Fields,
           !.offset_shifted = 0], "None")

\* --------------------------------------------------------- rate derivation
RECURSIVE Gcd(_, _)
Gcd(a, b) == IF b = 0 THEN a ELSE Gcd(b, a % b)

\* the float num/den, as a fraction in lowest terms with a positive
\* denominator; x/0 is what numpy's float64 division gives: inf, -inf or nan
Float(num, den) ==
    IF den = 0
    THEN [num |-> (IF num > 0 THEN 1 ELSE IF num < 0 THEN -1 ELSE 0), den |-> 0]
    ELSE LET g == Gcd(Abs(num), Abs(den))
             sg == IF den < 0 THEN -1 ELSE 1
         IN [num |-> sg * (num \div g), den |-> sg * (den \div g)]

\* the range of the loop of _calcRate
_calcRate_range(self) == 0..(Len(self.offset) - 2)

\* mutant: half the difference instead of the mean
_calcRate_x_diff(self, i) == Float(self.time[i + 2] - self.time[i + 1], 2 * TicksPerDay)

\* element i of xaxis, in days
_calcRate_x(self, i) == Float(self.time[i + 2] + self.time[i + 1], 2 * TicksPerDay)

\* element i of yaxis, in seconds per day
_calcRate_y(self, i) ==
    Float((self.offset[i + 2] - self.offset[i + 1]) * TicksPerDay,
          self.time[i + 2] - self.time[i + 1])

_calcRate(self) ==
    LET n == Cardinality(_calcRate_range(self))
    IN [time |-> [i \in 1..n |-> _calcRate_x(self, i - 1)],
        rate |-> [i \in 1..n |-> _calcRate_y(self, i - 1)],
        units |-> <<"days", "s/day">>,
        start |-> self.unix_time[1]]

\* ------------------------------------------------------------- InsertPoint
Inserted == <<"(", "i", "n", "s", "e", "r", "t", "e", "d", ")">>

\* mutant: the index that keeps the times in order
InsertPoint_index_sorted(self, time) ==
    Cardinality({i \in 1..Len(self.time) : self.time[i] <= time})

\* the index InsertPoint inserts at
InsertPoint_index(self, time) == argmin_abs(self.time, time)

\* the unix time InsertPoint gives the new point; it is computed after the
\* new time was put into _time
InsertPoint_unix_time(self, time) ==
    self.unix_time[1] + (time - self.time[1]) * SecondsPerTick

InsertPoint(self, time, offset, comment) ==
    IF ~IsNumber(time) \/ ~IsNumber(offset) THEN Ret(self, "None")
    ELSE LET c == IF comment = <<>> THEN Inserted ELSE comment
             index == InsertPoint_index(self, time.val)
             s1 == [self EXCEPT
                      !.time = np_insert(@, index, time.val),
                      !.offset = np_insert(@, index, offset.val),
                      !.comment = np_insert(@, index, astype_U(c, self.comment_itemsize))]
             unix_time == InsertPoint_unix_time(s1, time.val)
             s2 == [s1 EXCEPT
                      !.unix_time = np_insert(@, index, unix_time),
                      !.atomic_clock_error = np_insert(@, index, 0),
                      !.ios_clock_offset = np_insert(@, index, 0),
                      !.aliased = {}]
         IN IF CursorValid(s2) THEN Ret(s2, "point") ELSE Ret(s2, "IndexError")

\* ----------------------------------------------------------- concatenation
\* arr[N1:]
SliceFrom(arr, N1) == SubSeq(arr, N1 + 1, Len(arr))

\* mutant: the object itself instead of a copy of it
deepcopy_same(obj) == [obj |-> obj, is_copy |-> FALSE]

\* deepcopy(obj): a new object, with arrays of its own
deepcopy(obj) == [obj |-> obj, is_copy |-> TRUE]

\* mutant: the time of the first point of the result instead of the last
concat_time_end_first(ret_obj) == ret_obj.time[1]

\* ret_obj._time[-1], the end of the result so far
concat_time_end(ret_obj) == ret_obj.time[Len(ret_obj.time)]

\* mutant: delta is taken from the first offset of the result
concat_delta_first(ret_obj, obj, connect_offset) ==
    IF ~connect_offset THEN 0 ELSE obj.offset[1] - ret_obj.offset[1]

\* delta of one pass of the loop
concat_delta(ret_obj, obj, connect_offset) ==
    IF ~connect_offset THEN 0
    ELSE obj.offset[1] - ret_obj.offset[Len(ret_obj.offset)]

\* one pass of the loop of concatTimingRuns
concat_append(ret_obj, obj, connect_offset, N1) ==
    LET time_end == concat_time_end(ret_obj)
        unix_end == ret_obj.unix_time[Len(ret_obj.unix_time)]
        delta == concat_delta(ret_obj, obj, connect_offset)
    IN [ret_obj EXCEPT
          !.time = @ \o np_add(SliceFrom(obj.time, N1), time_end),
          !.unix_time = @ \o np_add(SliceFrom(obj.unix_time, N1), unix_end),
          !.offset = @ \o np_add(SliceFrom(obj.offset, N1), -delta),
          !.atomic_clock_error = @ \o SliceFrom(obj.atomic_clock_error, N1),
          !.ios_clock_offset = @ \o SliceFrom(obj.ios_clock_offset, N1),
          !.comment = @ \o SliceFrom(obj.comment, N1),
          !.comment_itemsize = Max2(@, obj.comment_itemsize)]

RECURSIVE concat_loop(_, _, _, _)
concat_loop(ret_obj, rest, connect_offset, N1) ==
    IF rest = <<>> THEN ret_obj
    ELSE concat_loop(concat_append(ret_obj, Head(rest), connect_offset, N1),
                     SliceFrom(rest, 1), connect_offset, N1)

\* mutant: a list of one run is let through
concat_enough_one(timing_runs) == Len(timing_runs) > 0

\* the check on the length of the list
concat_enough(timing_runs) == Len(timing_runs) > 1

\* the list as the call leaves it: element same (if not 0) is the object
\* returned
ListAfter(timing_runs, same, obj) ==
    IF same = 0 THEN timing_runs ELSE [timing_runs EXCEPT ![same] = obj]

\* concatTimingRuns of a list: the object returned, or None; shared is the
\* position in the list of the object returned (0: an object of its own) and
\* runs is the list after the call
concatTimingRuns(timing_runs, connect_offset, skip_first) ==
    IF ~concat_enough(timing_runs)
    THEN [ret |-> "None", obj |-> <<>>, shared |-> 0, runs |-> timing_runs]
    ELSE IF \E i \in 1..Len(timing_runs) : timing_runs[i].class_type # "TimingRun"
    THEN [ret |-> "None", obj |-> <<>>, shared |-> 0, runs |-> timing_runs]
    ELSE LET copy == deepcopy(timing_runs[1])
             same == IF copy.is_copy THEN 0 ELSE 1
             first == [copy.obj EXCEPT
                         !.point_index = 0, !.offset_shifted = 0, !.time_shifted = 0]
             N1 == IF ~skip_first THEN 0 ELSE 1
             merged == concat_loop(first, SliceFrom(timing_runs, 1), connect_offset, N1)
             obj == [merged EXCEPT !.original_data = original_data_of(merged),
                                   !.aliased = Fields]
         IN [ret |-> "TimingRun", obj |-> obj, shared |-> same,
             runs |-> ListAfter(timing_runs, same, obj)]

\* ------------------------------------------------------------ linspaceTime
\* floats that are not on the tick grid are fractions, as in the rate
FAdd(a, b) == Float(a.num * b.den + b.num * a.den, a.den * b.den)
FSub(a, b) == Float(a.num * b.den - b.num * a.den, a.den * b.den)
FMul(a, b) == Float(a.num * b.num, a.den * b.den)
FDiv(a, b) == Float(a.num * b.den, a.den * b.num)
NaN == Float(0, 0)

\* the elements of a set of numbers in ascending order
RECURSIVE Ascending(_)
Ascending(S) ==
    IF S = {} THEN <<>>
    ELSE LET m == CHOOSE x \in S : \A y \in S : x <= y
         IN <<m>> \o Ascending(S \ {m})

\* n = abs(int(n)); -1 stands for the exception int(n) raises
linspace_n(n) == IF IsNumber(n) THEN Abs(n.val) ELSE -1

\* np.linspace(tstart, tstop, numpnts)[j], in ticks
linspace_point(tstart, tstop, numpnts, j) ==
    IF numpnts = 1 THEN Float(tstart, 1)
    ELSE Float(tstart * (numpnts - 1) + j * (tstop - tstart), numpnts - 1)

\* abs(new_time[j] - t), times numpnts - 1
linspace_dist(tstart, tstop, numpnts, j, t) ==
    IF numpnts = 1 THEN Abs(tstart - t)
    ELSE Abs((tstart - t) * (numpnts - 1) + j * (tstop - tstart))

\* abs(new_time - t).argmin().  Where two grid points are at the same exact
\* distance from t the rounding of the floats decides between them: late is
\* the set of times for which the later one is the nearer.  (On a grid of
\* equal points all distances are the same float: the first index.)
linspace_argmin(tstart, tstop, numpnts, t, late) ==
    LET near == {j \in 0..(numpnts - 1) :
                    \A k \in 0..(numpnts - 1) :
                        linspace_dist(tstart, tstop, numpnts, j, t)
                            <= linspace_dist(tstart, tstop, numpnts, k, t)}
        lo == CHOOSE j \in near : \A k \in near : j <= k
        hi == CHOOSE j \in near : \A k \in near : j >= k
    IN IF tstop # tstart /\ t \in late THEN hi ELSE lo

\* numpnts
linspace_numpnts(timing_run, n) == Len(timing_run.time) * n

\* the index of each point of the run on the new time scale
linspace_indices(timing_run, numpnts, late) ==
    [i \in 1..Len(timing_run.time) |->
        linspace_argmin(timing_run.time[1], timing_run.time[Len(timing_run.time)],
                        numpnts, timing_run.time[i], late)]

\* mutant: two points of the run on one point of the scale are let through
linspace_loss_never(index) == FALSE

\* the first check: two points of the run fall on one point of the scale
linspace_loss(index) ==
    \E i \in 1..Len(index) : \E j \in 1..(i - 1) : index[i] = index[j]

\* mutant: neighbours on the scale are let through
linspace_neighbors_allowed(indices) ==
    \E i \in 1..(Len(indices) - 1) : ~(indices[i + 1] - indices[i] > 0)

\* the second check: two points of the run are neighbours on the scale
linspace_neighbors(indices) ==
    \E i \in 1..(Len(indices) - 1) : ~(indices[i + 1] - indices[i] > 1)

\* new_offset after the loop that puts the offsets of the run on the scale
linspace_anchors(timing_run, numpnts, index) ==
    [j \in 1..numpnts |->
        IF \E i \in 1..Len(index) : index[i] = j - 1
        THEN Float(timing_run.offset[CHOOSE i \in 1..Len(index) : index[i] = j - 1], 1)
        ELSE NaN]

\* mutant: the points between two old points keep the offset of the first
linspace_line_flat(new_time, new_offset, i1, i2, ii) == new_offset[i1 + 1]

\* new_offset[i1] + k * (ii * dt) of the interpolation loop
linspace_line(new_time, new_offset, i1, i2, ii) ==
    LET dt == FSub(new_time[2], new_time[1])
        k == FDiv(FSub(new_offset[i2 + 1], new_offset[i1 + 1]),
                  FSub(new_time[i2 + 1], new_time[i1 + 1]))
    IN FAdd(new_offset[i1 + 1], FMul(k, FMul(Float(ii, 1), dt)))

\* new_offset after the interpolation loop
linspace_offset(new_time, new_offset, indices) ==
    [j \in 1..Len(new_offset) |->
        IF \E i \in 1..(Len(indices) - 1) : indices[i] <= j - 1 /\ j - 1 < indices[i + 1]
        THEN LET i == CHOOSE i \in 1..(Len(indices) - 1) :
                          indices[i] <= j - 1 /\ j - 1 < indices[i + 1]
             IN linspace_line(new_time, new_offset, indices[i], indices[i + 1],
                              j - 1 - indices[i])
        ELSE new_offset[j]]

\* new_comment after the interpolation loop
linspace_comment(timing_run, numpnts, indices) ==
    [j \in 1..numpnts |->
        IF \E i \in 1..(Len(indices) - 1) : indices[i] = j - 1
        THEN timing_run.comment[CHOOSE i \in 1..(Len(indices) - 1) : indices[i] = j - 1]
        ELSE <<"i", "n", "s", "e", "r", "t", "e", "d">>]

\* linspaceTime(timing_run, n): the object returned, what was printed (ret),
\* the position of the object returned in <<timing_run>> (shared) and
\* <<timing_run>> after the call (runs).  The time and the offset of a
\* resampled run are fractions, the time in ticks.
linspaceTime(timing_run, n, late) ==
    LET copy == deepcopy(timing_run)
        ret_obj == copy.obj
        same == IF copy.is_copy THEN 0 ELSE 1
        back(ret) == [ret |-> ret, obj |-> ret_obj, shared |-> same, runs |-> <<timing_run>>]
    IN IF timing_run.class_type # "TimingRun" THEN back("must be a TimingRun object")
       ELSE IF linspace_n(n) = -1 THEN back("must be a positive integer")
       ELSE IF ~(linspace_n(n) > 0) THEN back("must be a positive integer")
       ELSE LET numpnts == linspace_numpnts(timing_run, linspace_n(n))
                tstart == timing_run.time[1]
                tstop == timing_run.time[Len(timing_run.time)]
                new_time == [j \in 1..numpnts |-> linspace_point(tstart, tstop, numpnts, j - 1)]
                index == linspace_indices(timing_run, numpnts, late)
                indices == Ascending({index[i] : i \in 1..Len(index)})
                anchors == linspace_anchors(timing_run, numpnts, index)
                new_offset == linspace_offset(new_time, anchors, indices)
                new_comment == linspace_comment(timing_run, numpnts, indices)
                obj == [ret_obj EXCEPT !.time = new_time, !.offset = new_offset,
                                       !.aliased = @ \ {"time", "offset"}]
                         @@ ("comments" :> new_comment)
            IN IF linspace_loss(index) THEN back("too small: loss of data")
               ELSE IF linspace_neighbors(indices) THEN back("too small: neighbors")
               ELSE [ret |-> "resampled", obj |-> obj, shared |-> same,
                     runs |-> ListAfter(<<timing_run>>, same, obj)]

\* ---------------------------------------------------------------- Save2csv
\* s.replace(a, b) for characters a and b
str_replace(s, a, b) == [i \in 1..Len(s) |-> IF s[i] = a THEN b ELSE s[i]]

\* no file was written
NoFile == [written |-> FALSE, watch |-> <<>>, watch_comment |-> <<>>,
           first_data_point |-> "", rows |-> <<>>]

\* the range of the loop that writes the data rows
Save2csv_range(self) == 0..(Len(self.time) - 2)

\* the data row written for point i
Save2csv_row(self, i) ==
    <<self.time[i + 1], self.offset[i + 1], str_replace(self.comment[i + 1], ",", ";"),
      self.unix_time[i + 1], self.atomic_clock_error[i + 1], self.ios_clock_offset[i + 1]>>

\* Save2csv(watch_comment = ...) of an object with the header lines of its
\* file (header[1] is the watch name): what is returned or raised, and the
\* file written (written is FALSE where the call ends before open())
Save2csv(self, watch_comment) ==
    LET name == self.header[1]
        n == Cardinality(Save2csv_range(self))
    IN IF watch_comment.kind # "str" THEN [ret |-> "None", file |-> NoFile]
       ELSE IF watch_comment.val = <<>> /\ Len(name) < 2
       THEN [ret |-> "IndexError", file |-> NoFile]
       ELSE IF Len(name) < 5 THEN [ret |-> "IndexError", file |-> NoFile]
       ELSE [ret |-> "saved",
             file |-> [written |-> TRUE,
                       watch |-> name,
                       watch_comment |-> IF watch_comment.val = <<>> THEN <<name[2]>>
                                         ELSE watch_comment.val,
                       first_data_point |-> name[5],
                       rows |-> [i \in 1..n |-> Save2csv_row(self, i - 1)]]]

\* ------------------------------------------------------------------ loading
\* the width numpy gives the comment array: the longest comment, at least 1
U_itemsize(comments) ==
    LET lens == {Len(comments[i]) : i \in 1..Len(comments)} \cup {1}
    IN CHOOSE m \in lens : \A l \in lens : l <= m

\* _loadFile of a csv file with the given data rows, after __init__
_loadFile(rows) ==
    LET col(f) == [i \in 1..Len(rows) |-> rows[i][f]]
    IN TimingRun(col("days"), col("offset"), col("comment"), col("unix_time"),
                 col("atomic_clock_error"), col("ios_clock_offset"),
                 U_itemsize(col("comment")))

\* a data row as WatchTracker writes it: the unix time follows from the days
Row(days, offset, comment, ace, ico) ==
    [days |-> days, offset |-> offset, comment |-> comment,
     unix_time |-> UnixStart + days * SecondsPerTick,
     atomic_clock_error |-> ace, ios_clock_offset |-> ico]

\* the csv files of the model: runs of one, two and three points, the last
\* with time = [0, 1, 2] days and offset = [0, 2, 3]
CsvFiles ==
    { <<Row(0, 2, <<>>, 1, 7)>>,
      <<Row(0, 1, <<"s">>, 1, 7), Row(2 * Day, 5, <<>>, 2, 8)>>,
      <<Row(0, 0, <<"a", "b">>, 1, 7), Row(Day, 2, <<>>, 2, 8),
        Row(2 * Day, 3, <<"c">>, 3, 9)>> }

\* -------------------------------------------------------------------- Files
\* the name of file number k of watch number w, and no name
FileOf(w, k) == <<w, k>>
NoName == <<>>

\* no Files object
NoFiles == [watch_files |-> <<>>, watch_index |-> 0, file_index |-> 0, ok |-> FALSE]

\* Files() of a folder with csv files: _watch_files as _getWatches leaves it
\* for watches with count[w] files each, the first watch and file selected
Files_init(count) ==
    [watch_files |-> [w \in 1..Len(count) |-> [k \in 1..count[w] |-> FileOf(w - 1, k - 1)]],
     watch_index |-> 0,
     file_index |-> 0,
     ok |-> Len(count) > 0]

\* len(self._watches)
Files_watches(self) == Len(self.watch_files)

\* the files property
Files_files(self) == self.watch_files[self.watch_index + 1]

\* the watch_index setter
Files_watch_index_set(self, value) ==
    IF ~IsNumber(value) THEN self
    ELSE IF value.val < 0 \/ value.val >= Files_watches(self) THEN self
    ELSE [self EXCEPT !.watch_index = value.val]

\* the upper limit the file_index setter tests the value against
Files_file_index_limit(self) == Files_watches(self)

\* the file_index setter
Files_file_index_set(self, value) ==
    IF ~IsNumber(value) THEN self
    ELSE IF value.val < 0 \/ value.val >= Files_file_index_limit(self) THEN self
    ELSE [self EXCEPT !.file_index = value.val]

\* the file property: the name, or the IndexError of the list
Files_file(self) ==
    IF self.file_index < Len(Files_files(self))
    THEN [ret |-> "str", file |-> Files_files(self)[self.file_index + 1]]
    ELSE [ret |-> "IndexError", file |-> NoName]

\* TimingRun(watch_index = ..., file_index = ...): what __init__ prints or
\* raises before it loads ("loaded" where it gets to _loadFile) and the
\* _file it has selected
TimingRun_file(count, watch_index, file_index) ==
    LET F0 == Files_init(count)
        none(ret) == [ret |-> ret, file |-> NoName]
    IN IF ~F0.ok THEN none("could not find the file")
       ELSE IF ~(IsNumber(watch_index) /\ IsNumber(file_index)) THEN none("must both be integers")
       ELSE IF watch_index.val < 0 THEN none("watch_index must be >= 0")
       ELSE IF watch_index.val >= Files_watches(F0) THEN none("watch_index is too large")
       ELSE LET F1 == Files_watch_index_set(F0, watch_index)
            IN IF file_index.val < 0 \/ file_index.val >= Len(Files_files(F1))
               THEN none("file_index must be between")
               ELSE LET F2 == Files_file_index_set(F1, file_index)
                        r == Files_file(F2)
                    IN IF r.ret = "str" THEN [ret |-> "loaded", file |-> r.file]
                       ELSE none(r.ret)

\* ------------------------------------------------------------------ inputs
IndexInputs == {PyInt(i) : i \in (-1)..MaxLen} \cup {PyStr}
DeleteInputs == {PyNone, PyInt(-1), PyInt(0), PyInt(1), PyInt(MaxLen), PyStr}
PointDeleteInputs == {PyInt(-1), PyInt(1), PyInt(MaxLen), PyStr}
PointTimeInputs == {PyFloat(Day), PyStr}
PointUnixTimeInputs == {PyInt(UnixStart + SecondsPerDay), PyStr}
PointOffsetInputs == {PyFloat(4), PyStr}
CommentInputs == {<<"x", "y", "z">>}
ErrorInputs == {PyFloat(1), PyStr}
ShiftOffsetInputs == {PyInt(1), PyFloat(2), PyStr}
ShiftTimeInputs == {PyInt(Day), PyFloat(1), PyStr}
\* time, offset and comment of InsertPoint
InsertInputs ==
    { <<PyFloat(1), PyFloat(4), <<>> >>,
      <<PyFloat(3), PyInt(4), <<"n">> >>,
      <<PyStr, PyFloat(4), <<>> >>,
      <<PyFloat(1), PyStr, <<>> >> }
\* the file of the run appended by concatTimingRuns
ConcatFiles == {rows \in CsvFiles : Len(rows) = 2}

\* ----------------------------------------------------------------- history
NoRate == [time |-> <<>>, rate |-> <<>>, units |-> <<>>, start |-> 0]
NoTrack == [kind |-> "", n |-> 0, base |-> <<>>]
NoCall == [args |-> <<>>, ret |-> ""]

Arrays(self) == original_data_of(self)

\* a run whose arrays are those of a file or of the methods; a run that
\* linspaceTime has resampled (it has the attribute _comments, a time axis
\* off the tick grid and arrays of two lengths) is followed no further
Regular(self) == "comments" \notin DOMAIN self

\* the model's bounds on a store
Bounded(self) ==
    /\ Len(self.time) <= MaxLen
    /\ \A i \in 1..Len(self.time) :
          /\ Abs(self.time[i]) <= MaxDays * Day
          /\ Abs(self.offset[i]) <= MaxOffset
    /\ Abs(self.time_shifted) <= MaxDays * Day
    /\ Abs(self.offset_shifted) <= MaxOffset

\* the run of consecutive ShiftOffset (or ShiftTime) calls with a number,
\* begun with the accumulator at zero, that the call continues, begins or ends
NextTrack(name, args) ==
    IF name \in {"ShiftOffset", "ShiftTime"} /\ IsNumber(args[1])
    THEN IF lastOp.name = name /\ track.kind = name
         THEN [track EXCEPT !.n = Min2(@ + 1, 3)]
         ELSE IF (IF name = "ShiftOffset" THEN run.offset_shifted ELSE run.time_shifted) = 0
              THEN [kind |-> name, n |-> 1, base |-> run]
              ELSE NoTrack
    ELSE IF /\ name \in {"ShiftOffsetReset", "ShiftTimeReset"}
            /\ track.kind \o "Reset" = name
            /\ lastOp.name = track.kind
         THEN track
         ELSE NoTrack

\* the sum of the values of the ShiftOffset calls that returned since the
\* last ShiftOffsetReset; whether a point was inserted, deleted or given an
\* offset between the first of these calls and the reset that ended them;
\* and the number of ShiftOffsetReset calls in a row (counted to 2)
NoShift == [sum |-> 0, edited |-> FALSE, resets |-> 0]

PointEdits == {"InsertPoint", "point_insert", "_deletePoint", "point_delete",
               "point_delete_set", "point_offset"}

NextApplied(name, args, r) ==
    IF name = "ShiftOffsetReset"
    THEN [sum |-> 0, edited |-> applied.edited /\ applied.sum # 0,
          resets |-> Min2(applied.resets + 1, 2)]
    ELSE IF name = "ShiftOffset" /\ r.ret = "None"
    THEN [sum |-> applied.sum + args[1].val, edited |-> applied.edited /\ applied.sum # 0,
          resets |-> 0]
    ELSE IF name \in PointEdits /\ r.self.offset # run.offset /\ applied.sum # 0
    THEN [applied EXCEPT !.edited = TRUE, !.resets = 0]
    ELSE [applied EXCEPT !.resets = 0]

\* a call on the object: what it leaves behind becomes the state
Call(name, args, r) ==
    /\ steps < MaxSteps
    /\ Regular(run)
    /\ Bounded(r.self)
    /\ steps' = steps + 1
    /\ run' = r.self
    /\ prev' = run
    /\ lastOp' = [name |-> name, args |-> args, ret |-> r.ret]
    /\ track' = NextTrack(name, args)
    /\ rate' = NoRate
    /\ loaded' = loaded
    /\ inputs' = IF shared = 0 THEN inputs ELSE [inputs EXCEPT ![shared] = r.self]
    /\ applied' = NextApplied(name, args, r)
    /\ UNCHANGED <<given, shared, csv, files, file>>

\* -------------------------------------------------------------- operations
Init ==
    /\ \E rows \in CsvFiles : run = _loadFile(rows)
    /\ prev = run
    /\ loaded = Arrays(run)
    /\ lastOp = [name |-> "TimingRun", args |-> <<>>, ret |-> "None"]
    /\ track = NoTrack
    /\ rate = NoRate
    /\ steps = 0
    /\ inputs = <<>>
    /\ given = NoCall
    /\ shared = 0
    /\ csv = NoFile
    /\ applied = NoShift
    /\ files = NoFiles
    /\ file = NoName

SetPointIndex == \E i \in IndexInputs : Call("point_index", <<i>>, point_index_set(run, i))

DeletePoint == \E i \in DeleteInputs : Call("_deletePoint", <<i>>, _deletePoint(run, i))

PointDelete == Call("point_delete", <<>>, point_delete(run))

PointDeleteSet == \E i \in PointDeleteInputs : Call("point_delete_set", <<i>>, point_delete_set(run, i))

PointInsert == Call("point_insert", <<>>, point_insert(run))

SetPointTime == \E v \in PointTimeInputs : Call("point_time", <<v>>, point_time_set(run, v))

SetPointUnixTime ==
    \E v \in PointUnixTimeInputs :
        /\ point_unix_time_on_grid(run, v)
        /\ Call("point_unix_time", <<v>>, point_unix_time_set(run, v))

SetPointOffset == \E v \in PointOffsetInputs : Call("point_offset", <<v>>, point_offset_set(run, v))

SetPointTimingComment ==
    \E c \in CommentInputs : Call("point_timing_comment", <<c>>, point_timing_comment_set(run, c))

SetPointAtomicClockError ==
    \E v \in ErrorInputs :
        Call("point_atomic_clock_error", <<v>>, point_atomic_clock_error_set(run, v))

SetPointIosClockOffset ==
    \E v \in ErrorInputs :
        Call("point_ios_clock_offset", <<v>>, point_ios_clock_offset_set(run, v))

DoReset == Call("Reset", <<>>, Reset(run))

DoShiftOffset == \E v \in ShiftOffsetInputs : Call("ShiftOffset", <<v>>, ShiftOffset(run, v))

DoShiftTime == \E v \in ShiftTimeInputs : Call("ShiftTime", <<v>>, ShiftTime(run, v))

DoShiftOffsetReset == Call("ShiftOffsetReset", <<>>, ShiftOffsetReset(run))

DoShiftTimeReset == Call("ShiftTimeReset", <<>>, ShiftTimeReset(run))

DoInsertPoint ==
    \E a \in InsertInputs :
        Call("InsertPoint", a, InsertPoint(run, a[1], a[2], a[3]))

\* the rate property: the store is only read
Rate ==
    /\ steps < MaxSteps
    /\ steps' = steps + 1
    /\ rate' = _calcRate(run)
    /\ prev' = run
    /\ lastOp' = [name |-> "rate", args |-> <<>>, ret |-> "dict"]
    /\ track' = NoTrack
    /\ applied' = [applied EXCEPT !.resets = 0]
    /\ UNCHANGED <<run, loaded, inputs, given, shared, csv, files, file>>

\* concatTimingRuns([run, other], ...): the object returned is the one the
\* operations go on with
Concat ==
    \E rows \in ConcatFiles, connect_offset \in BOOLEAN, skip_first \in BOOLEAN :
        LET r == concatTimingRuns(<<run, _loadFile(rows)>>, connect_offset, skip_first)
        IN /\ steps < MaxSteps
           /\ r.ret = "TimingRun"
           /\ Bounded(r.obj)
           /\ steps' = steps + 1
           /\ run' = r.obj
           /\ prev' = run
           /\ loaded' = Arrays(r.obj)
           /\ lastOp' = [name |-> "concatTimingRuns",
                         args |-> <<connect_offset, skip_first>>, ret |-> r.ret]
           /\ track' = NoTrack
           /\ rate' = NoRate
           /\ applied' = [applied EXCEPT !.resets = 0]
           /\ UNCHANGED <<inputs, given, shared, csv, files, file>>

Next ==
    \/ SetPointIndex
    \/ DeletePoint
    \/ PointDelete
    \/ PointDeleteSet
    \/ PointInsert
    \/ SetPointTime
    \/ SetPointUnixTime
    \/ SetPointOffset
    \/ SetPointTimingComment
    \/ SetPointAtomicClockError
    \/ SetPointIosClockOffset
    \/ DoReset
    \/ DoShiftOffset
    \/ DoShiftTime
    \/ DoShiftOffsetReset
    \/ DoShiftTimeReset
    \/ DoInsertPoint
    \/ Rate
    \/ Concat

Spec == Init /\ [][Next]_vars

\* the operations of the time-order invariant: the two inserts, the deletes
\* and the time shifts, on a file whose time axis is sorted
NextOrder ==
    \/ SetPointIndex
    \/ DeletePoint
    \/ PointDelete
    \/ PointDeleteSet
    \/ PointInsert
    \/ DoInsertPoint
    \/ DoShiftTime
    \/ DoShiftTimeReset

SpecOrder == Init /\ [][NextOrder]_vars

\* ------------------------------------------------------------ derived runs
\* files of the runs handed to the module functions: those of CsvFiles, a
\* run that ends at offset 5, an unevenly spaced run that starts at offset 1
\* and an evenly spaced run of four points
DeriveFiles ==
    CsvFiles \cup
    { <<Row(0, 0, <<"a">>, 1, 7), Row(Day, 2, <<>>, 2, 8), Row(2 * Day, 5, <<"c">>, 3, 9)>>,
      <<Row(0, 1, <<"d">>, 1, 7), Row(Day, 3, <<>>, 2, 8), Row(3 * Day, 4, <<>>, 3, 9)>>,
      <<Row(0, 0, <<>>, 1, 7), Row(Day, 3, <<"p">>, 2, 8), Row(2 * Day, 6, <<>>, 3, 9),
        Row(3 * Day, 3, <<>>, 4, 10)>> }

\* an object of another class, and one without the attribute _class_type
NotATimingRun == [class_type |-> "Files"]
NoClassType == [class_type |-> ""]

\* the runs that are put into a list next to the run under operation
ConcatOthers == {_loadFile(rows) : rows \in {f \in DeriveFiles : Len(f) <= 3 /\ f[1].offset # 0}}

\* the lists handed to concatTimingRuns
ConcatLists(self) ==
    {<<>>, <<self>>, <<self, NotATimingRun>>, <<NoClassType, self>>, <<self, self>>}
    \cup {<<self, o>> : o \in ConcatOthers}
    \cup {<<o, self>> : o \in ConcatOthers}
    \cup {<<self, o, p>> : o \in ConcatOthers, p \in {q \in ConcatOthers : Len(q.time) > 1}}

\* the first position of obj in the list, 0 if it is not in it
PositionOf(list, obj) ==
    IF \E i \in 1..Len(list) : list[i] = obj
    THEN CHOOSE i \in 1..Len(list) : list[i] = obj /\ \A j \in 1..(i - 1) : list[j] # obj
    ELSE 0

InitDerive ==
    /\ \E rows \in DeriveFiles : run = _loadFile(rows)
    /\ prev = run
    /\ loaded = Arrays(run)
    /\ lastOp = [name |-> "TimingRun", args |-> <<>>, ret |-> "None"]
    /\ track = NoTrack
    /\ rate = NoRate
    /\ steps = 0
    /\ inputs = <<>>
    /\ given = NoCall
    /\ shared = 0
    /\ csv = NoFile
    /\ applied = NoShift
    /\ files = NoFiles
    /\ file = NoName

\* the calls on the run before it is handed over are counted by MaxBefore;
\* before and after, the run is worked on with a cursor move, a delete, an
\* insert, a setter and the two shifts
Editable == given # NoCall \/ steps < MaxBefore

EditPointIndex == Editable /\ Call("point_index", <<PyInt(1)>>, point_index_set(run, PyInt(1)))
EditDeletePoint == Editable /\ Call("_deletePoint", <<PyNone>>, _deletePoint(run, PyNone))
EditPointInsert == Editable /\ PointInsert
EditPointTimingComment == Editable /\ SetPointTimingComment
EditShiftOffset == Editable /\ Call("ShiftOffset", <<PyInt(1)>>, ShiftOffset(run, PyInt(1)))
EditShiftTime == Editable /\ Call("ShiftTime", <<PyInt(Day)>>, ShiftTime(run, PyInt(Day)))

\* concatTimingRuns(timing_runs, ...) of a list that holds the run under
\* operation, the one call of a module function that a behaviour makes: the
\* operations go on with the object returned, or, when None is returned,
\* with the run they were on
ConcatRuns ==
    \E timing_runs \in ConcatLists(run), connect_offset \in BOOLEAN, skip_first \in BOOLEAN :
        LET r == concatTimingRuns(timing_runs, connect_offset, skip_first)
        IN /\ steps < MaxSteps
           /\ given = NoCall
           /\ steps' = steps + 1
           /\ run' = IF r.ret = "TimingRun" THEN r.obj ELSE run
           /\ prev' = run
           /\ loaded' = IF r.ret = "TimingRun" THEN Arrays(r.obj) ELSE loaded
           /\ lastOp' = [name |-> "concatTimingRuns",
                         args |-> <<connect_offset, skip_first>>, ret |-> r.ret]
           /\ track' = NoTrack
           /\ rate' = NoRate
           /\ inputs' = r.runs
           /\ given' = [args |-> timing_runs, ret |-> r.ret]
           /\ shared' = IF r.ret = "TimingRun" THEN r.shared
                        ELSE PositionOf(timing_runs, run)
           /\ csv' = csv
           /\ applied' = [applied EXCEPT !.resets = 0]
           /\ UNCHANGED <<files, file>>

\* n of linspaceTime
LinspaceInputs ==
    {PyInt(n) : n \in 0..MaxMultiplier} \cup {PyInt(-2), PyFloat(2), PyStr, PyNone}

\* linspaceTime(run, n): the operations go on with the object returned
Linspace ==
    \E n \in LinspaceInputs, late \in SUBSET {run.time[i] : i \in 1..Len(run.time)} :
        LET r == linspaceTime(run, n, late)
        IN /\ steps < MaxSteps
           /\ given = NoCall
           /\ steps' = steps + 1
           /\ run' = r.obj
           /\ prev' = run
           /\ loaded' = loaded
           /\ lastOp' = [name |-> "linspaceTime", args |-> <<n>>, ret |-> r.ret]
           /\ track' = NoTrack
           /\ rate' = NoRate
           /\ inputs' = r.runs
           /\ given' = [args |-> <<run>>, ret |-> "TimingRun"]
           /\ shared' = r.shared
           /\ csv' = csv
           /\ applied' = [applied EXCEPT !.resets = 0]
           /\ UNCHANGED <<files, file>>

NextDerive ==
    \/ EditPointIndex
    \/ EditDeletePoint
    \/ EditPointInsert
    \/ EditPointTimingComment
    \/ EditShiftOffset
    \/ EditShiftTime
    \/ ConcatRuns
    \/ Linspace

SpecDerive == InitDerive /\ [][NextDerive]_vars

\* ------------------------------------------------------------- saved files
\* the header lines _loadFile reads from rows 3 to 7 of a file: the watch
\* name, the watch comment, the name and the comment of the timing run and
\* the first data point
Headers ==
    { <<s, <<"c">>, <<"r">>, <<>>, <<"2", "4">> >> :
        s \in {<<"W">>, <<"O", "m", "e", "g", "a">>} }

\* data rows with a comma in a comment
SaveFiles ==
    CsvFiles \cup
    { <<Row(0, 1, <<"a", ",", "b">>, 1, 7), Row(Day, 2, <<",">>, 2, 8)>> }

\* the watch_comment argument of Save2csv: the default "", a string, no string
SaveInputs ==
    { [kind |-> "str", val |-> <<>>], [kind |-> "str", val |-> <<"n", "e", "w">>],
      [kind |-> "None", val |-> <<>>] }

InitSave ==
    /\ \E rows \in SaveFiles, header \in Headers :
          run = _loadFile(rows) @@ ("header" :> header)
    /\ prev = run
    /\ loaded = Arrays(run)
    /\ lastOp = [name |-> "TimingRun", args |-> <<>>, ret |-> "None"]
    /\ track = NoTrack
    /\ rate = NoRate
    /\ steps = 0
    /\ inputs = <<>>
    /\ given = NoCall
    /\ shared = 0
    /\ csv = NoFile
    /\ applied = NoShift
    /\ files = NoFiles
    /\ file = NoName

\* Save2csv(watch_comment = ...): the store is only read
DoSave2csv ==
    \E watch_comment \in SaveInputs :
        LET r == Save2csv(run, watch_comment)
        IN /\ steps < MaxSteps
           /\ steps' = steps + 1
           /\ csv' = IF r.file.written THEN r.file ELSE csv
           /\ prev' = run
           /\ lastOp' = [name |-> "Save2csv", args |-> <<watch_comment>>, ret |-> r.ret]
           /\ track' = NoTrack
           /\ rate' = NoRate
           /\ applied' = [applied EXCEPT !.resets = 0]
           /\ UNCHANGED <<run, loaded, inputs, given, shared, files, file>>

NextSave ==
    \/ SetPointIndex
    \/ DeletePoint
    \/ PointInsert
    \/ SetPointTimingComment
    \/ DoSave2csv

SpecSave == InitSave /\ [][NextSave]_vars

\* ------------------------------------------------------ shifts and edits
\* ShiftOffset and ShiftOffsetReset between the point edits: InsertPoint,
\* point_insert, the deletes and the point_offset setter
NextShift ==
    \/ SetPointIndex
    \/ DeletePoint
    \/ PointDelete
    \/ PointInsert
    \/ SetPointOffset
    \/ DoInsertPoint
    \/ DoShiftOffset
    \/ DoShiftOffsetReset

SpecShift == Init /\ [][NextShift]_vars

\* ---------------------------------------------------------- the files folder
\* the numbers of files of the watches of a folder
Folders == UNION {[1..n -> 1..MaxFiles] : n \in 1..MaxWatches}

\* values given for watch_index and file_index
FilesInputs == {PyInt(i) : i \in (-1)..MaxFiles} \cup {PyStr}

InitFiles ==
    /\ run = _loadFile(CHOOSE rows \in CsvFiles : Len(rows) = 1)
    /\ prev = run
    /\ loaded = Arrays(run)
    /\ lastOp = [name |-> "Files", args |-> <<>>, ret |-> "None"]
    /\ track = NoTrack
    /\ rate = NoRate
    /\ steps = 0
    /\ inputs = <<>>
    /\ given = NoCall
    /\ shared = 0
    /\ csv = NoFile
    /\ applied = NoShift
    /\ \E count \in Folders : files = Files_init(count)
    /\ file = NoName

\* a call on the Files object, or a TimingRun made from the folder
FilesCall(name, args, self, ret, name_read) ==
    /\ steps < MaxSteps
    /\ steps' = steps + 1
    /\ files' = self
    /\ file' = name_read
    /\ lastOp' = [name |-> name, args |-> args, ret |-> ret]
    /\ UNCHANGED <<run, rate, prev, loaded, track, inputs, given, shared, csv, applied>>

SetWatchIndex ==
    \E v \in FilesInputs :
        FilesCall("watch_index", <<v>>, Files_watch_index_set(files, v), "None", file)

SetFileIndex ==
    \E v \in FilesInputs :
        FilesCall("file_index", <<v>>, Files_file_index_set(files, v), "None", file)

GetFile == FilesCall("file", <<>>, files, Files_file(files).ret, Files_file(files).file)

\* TimingRun(watch_index = w, file_index = f) on the folder of the Files object
NewTimingRun ==
    \E w \in FilesInputs, f \in FilesInputs :
        LET count == [i \in 1..Len(files.watch_files) |-> Len(files.watch_files[i])]
            r == TimingRun_file(count, w, f)
        IN FilesCall("TimingRun", <<w, f>>, files, r.ret, r.file)

NextFiles ==
    \/ SetWatchIndex
    \/ SetFileIndex
    \/ GetFile
    \/ NewTimingRun

SpecFiles == InitFiles /\ [][NextFiles]_vars

\* ================================================================== claims
SameLength(self) ==
    /\ Len(self.offset) = Len(self.time)
    /\ Len(self.comment) = Len(self.time)
    /\ Len(self.unix_time) = Len(self.time)
    /\ Len(self.atomic_clock_error) = Len(self.time)
    /\ Len(self.ios_clock_offset) = Len(self.time)

Sorted(arr) == \A i \in 1..(Len(arr) - 1) : arr[i] <= arr[i + 1]

DeleteOps == {"_deletePoint", "point_delete", "point_delete_set"}

\* C1: after every call on a loaded store, and in the store concatTimingRuns
\* returns, the six per-sample arrays have the same length.
C1_SameLength == SameLength(run)

\* C1 witness: a third call that lengthened the arrays, on a store whose
\* arrays are no longer the loaded ones
C1_Witness ==
    /\ steps = 3
    /\ lastOp.name \in {"InsertPoint", "point_insert", "concatTimingRuns"}
    /\ Len(run.time) = Len(prev.time) + 1
    /\ prev.aliased = {}

\* C2: the store never becomes empty; a delete asked of a store of exactly
\* one sample removes nothing and does not report success, and through
\* _deletePoint and the point_delete property it leaves the cursor where it was.
C2_KeepsLastPoint ==
    /\ Len(run.time) >= 1
    /\ (lastOp.name \in DeleteOps /\ Len(prev.time) = 1) =>
          /\ Arrays(run) = Arrays(prev)
          /\ lastOp.ret \notin {"True", "point"}
    /\ (lastOp.name \in {"_deletePoint", "point_delete"} /\ Len(prev.time) = 1) =>
          run.point_index = prev.point_index

\* C2 witness: a delete was asked of a store of one sample
C2_Witness ==
    /\ lastOp.name = "point_delete"
    /\ Len(prev.time) = 1
    /\ lastOp.ret = "{}"

\* C3: after every call the cursor is a valid index, 0 <= cursor <= length-1.
C3_CursorValid == CursorValid(run)

\* C4: from a file with a sorted time axis, the time axis is non-decreasing
\* after any sequence of point_insert, InsertPoint, deletes, ShiftTime and
\* ShiftTimeReset.
C4_TimeSorted == Sorted(run.time)

\* C5: from a store with no offset shift outstanding, ShiftOffset(d1);
\* ShiftOffset(d2) (or more); ShiftOffsetReset() leaves every offset at its
\* value before the first shift and the offset accumulator at zero.
C5_ShiftOffsetRoundTrip ==
    (lastOp.name = "ShiftOffsetReset" /\ track.kind = "ShiftOffset" /\ track.n >= 2) =>
        /\ run.offset = track.base.offset
        /\ run.offset_shifted = 0

\* C5 witness: the reset has undone two shifts that had moved the offsets
C5_Witness ==
    /\ lastOp.name = "ShiftOffsetReset"
    /\ track.kind = "ShiftOffset"
    /\ track.n = 2
    /\ prev.offset_shifted = 3
    /\ prev.offset = np_add(track.base.offset, 3)

\* C6: ShiftTime(d) with a number d adds d to every time, d*86400 to every
\* device timestamp and d to the accumulator, all three or none; and from a
\* store with no time shift outstanding, ShiftTime(d); ShiftTimeReset()
\* restores every time and every device timestamp and leaves the
\* accumulator at zero.
C6_ShiftTimeRoundTrip ==
    /\ (lastOp.name = "ShiftTime" /\ IsNumber(lastOp.args[1])) =>
          LET d == lastOp.args[1].val
          IN \/ /\ run.time = np_add(prev.time, d)
                /\ run.unix_time = np_add(prev.unix_time, d * SecondsPerTick)
                /\ run.time_shifted = prev.time_shifted + d
             \/ /\ run.time = prev.time
                /\ run.unix_time = prev.unix_time
                /\ run.time_shifted = prev.time_shifted
    /\ (lastOp.name = "ShiftTimeReset" /\ track.kind = "ShiftTime" /\ track.n = 1) =>
          /\ run.time = track.base.time
          /\ run.unix_time = track.base.unix_time
          /\ run.time_shifted = 0

\* C7: Reset() makes the six arrays equal to the values they had when the
\* store was loaded, whatever was called before.
C7_ResetRestoresLoaded == (lastOp.name = "Reset") => (Arrays(run) = loaded)

\* C8: after Reset() the time accumulator and the offset accumulator are
\* both zero.
C8_ResetZeroesAccumulators ==
    (lastOp.name = "Reset") => (run.time_shifted = 0 /\ run.offset_shifted = 0)

\* C9: point_insert at a valid cursor c lengthens each of the six arrays by
\* one, leaves the cursor at c+1, makes the samples at c and c+1 equal to the
\* sample that was at c, and keeps every other sample and their order.
C9_InsertDuplicate ==
    (lastOp.name = "point_insert" /\ CursorValid(prev)) =>
        LET c == prev.point_index
        IN /\ lastOp.ret = "point"
           /\ run.point_index = c + 1
           /\ \A f \in Fields :
                 LET old == Arrays(prev)[f]
                     new == Arrays(run)[f]
                 IN /\ Len(new) = Len(old) + 1
                    /\ new[c + 1] = old[c + 1]
                    /\ new[c + 2] = old[c + 1]
                    /\ \A i \in 0..(c - 1) : new[i + 1] = old[i + 1]
                    /\ \A i \in (c + 1)..(Len(old) - 1) : new[i + 2] = old[i + 1]

\* C9 witness: a duplicate was made at cursor 1 of a store of two samples
C9_Witness ==
    /\ lastOp.name = "point_insert"
    /\ lastOp.ret = "point"
    /\ prev.point_index = 1
    /\ Len(prev.time) = 2

\* C10: the rate of a store of n samples has n-1 entries, entry i being the
\* midpoint (time[i]+time[i+1])/2 in days and the rate
\* (offset[i+1]-offset[i])/(time[i+1]-time[i]) in s/day (where the two times
\* differ); time = [0,1,2], offset = [0,2,3] gives (0.5, 2.0), (1.5, 1.0);
\* and the store is as it was.
C10_Rate ==
    (lastOp.name = "rate") =>
        LET n == Len(run.time)
        IN /\ Len(rate.time) = n - 1
           /\ Len(rate.rate) = n - 1
           /\ \A i \in 1..(n - 1) :
                 LET x == rate.time[i]
                     y == rate.rate[i]
                     dt == run.time[i + 1] - run.time[i]
                 IN /\ x.den > 0
                    /\ x.num * 2 * TicksPerDay = (run.time[i] + run.time[i + 1]) * x.den
                    /\ dt # 0 =>
                          /\ y.den > 0
                          /\ y.num * dt = (run.offset[i + 1] - run.offset[i]) * TicksPerDay * y.den
           /\ (run.time = <<0, Day, 2 * Day>> /\ run.offset = <<0, 2, 3>>) =>
                 /\ rate.time = <<[num |-> 1, den |-> 2], [num |-> 3, den |-> 2]>>
                 /\ rate.rate = <<[num |-> 2, den |-> 1], [num |-> 1, den |-> 1]>>
           /\ run = prev

\* C10 witness: the rate of the run time = [0,1,2], offset = [0,2,3] was taken
C10_Witness ==
    /\ lastOp.name = "rate"
    /\ run.time = <<0, Day, 2 * Day>>
    /\ run.offset = <<0, 2, 3>>
    /\ Len(rate.rate) = 2

\* ---- claims on the module functions
\* the last call was a concatTimingRuns that returned a run
ConcatDone ==
    /\ lastOp.name = "concatTimingRuns"
    /\ lastOp.ret = "TimingRun"
    /\ given.ret = "TimingRun"

\* the number of samples that run j of the list adds to the result
Taken(list, j, N1) ==
    IF j = 1 THEN Len(list[1].time) ELSE Max2(Len(list[j].time) - N1, 0)

\* the number of samples the result holds when run j of the list is appended
RECURSIVE StartOf(_, _, _)
StartOf(list, j, N1) ==
    IF j = 1 THEN 0 ELSE StartOf(list, j - 1, N1) + Taken(list, j - 1, N1)

\* C11: in the result of concatTimingRuns the offsets appended from each run
\* after the first are that run's offsets minus delta, where delta is 0
\* without connect_offset and otherwise the first offset of that run minus the
\* last offset of the result so far; with connect_offset and without
\* skip_first the sample at each seam has the offset of the sample before it
\* (A ends at 5, B starts at 1: the seam sample has offset 5).
C11_ConcatOffsets ==
    ConcatDone =>
        LET list == given.args
            connect_offset == lastOp.args[1]
            N1 == IF lastOp.args[2] THEN 1 ELSE 0
        IN \A j \in 2..Len(list) :
              LET start == StartOf(list, j, N1)
                  delta == IF connect_offset
                           THEN list[j].offset[1] - run.offset[start]
                           ELSE 0
              IN /\ \A i \in (N1 + 1)..Len(list[j].time) :
                        run.offset[start + i - N1] = list[j].offset[i] - delta
                 /\ (connect_offset /\ N1 = 0) => run.offset[start + 1] = run.offset[start]

\* C11 witness: three runs were merged with connect_offset and without
\* skip_first; the first ends at offset 5, the second has three samples and
\* starts at offset 1, and the seam sample has offset 5
C11_Witness ==
    /\ ConcatDone
    /\ Len(given.args) = 3
    /\ lastOp.args = <<TRUE, FALSE>>
    /\ given.args[1].offset = <<0, 2, 5>>
    /\ given.args[2].offset = <<1, 3, 4>>
    /\ run.offset[4] = 5
    /\ Len(run.offset) = 8

\* C12: in the result of concatTimingRuns the times appended from each run
\* after the first are that run's times plus the last time of the result so
\* far; so for runs whose times are sorted and start at 0 the merged times
\* are non-decreasing and, without skip_first, the sample at each seam has
\* the time of the sample before it.
C12_ConcatTime ==
    ConcatDone =>
        LET list == given.args
            N1 == IF lastOp.args[2] THEN 1 ELSE 0
        IN /\ \A j \in 2..Len(list) :
                 \A i \in (N1 + 1)..Len(list[j].time) :
                    run.time[StartOf(list, j, N1) + i - N1]
                        = list[j].time[i] + run.time[StartOf(list, j, N1)]
           /\ (\A j \in 1..Len(list) : Sorted(list[j].time) /\ list[j].time[1] = 0) =>
                 /\ Sorted(run.time)
                 /\ N1 = 0 =>
                       /\ run.time[Len(list[1].time) + 1] = list[1].time[Len(list[1].time)]
                       /\ \A j \in 2..Len(list) :
                             run.time[StartOf(list, j, N1) + 1] = run.time[StartOf(list, j, N1)]

\* C12 witness: three runs with sorted times that start at 0 were merged
\* without skip_first, and the third was appended behind a time that is not 0
C12_Witness ==
    /\ ConcatDone
    /\ Len(given.args) = 3
    /\ ~lastOp.args[2]
    /\ \A j \in 1..3 : Sorted(given.args[j].time) /\ given.args[j].time[1] = 0
    /\ Len(given.args[3].time) > 1
    /\ run.time[StartOf(given.args, 3, 0) + 1] > given.args[1].time[Len(given.args[1].time)]
    /\ run.time[Len(run.time)] > run.time[StartOf(given.args, 3, 0) + 1]
\* C17: concatTimingRuns returns None whenever the list holds fewer than two
\* runs or holds an object that is not a TimingRun (another class, or no
\* _class_type at all), and no object of the list is modified.
C17_ConcatRejects ==
    (/\ lastOp.name = "concatTimingRuns"
     /\ given # NoCall
     /\ \/ Len(given.args) < 2
        \/ \E i \in 1..Len(given.args) : given.args[i].class_type # "TimingRun")
    => /\ lastOp.ret = "None"
       /\ given.ret = "None"
       /\ inputs = given.args
       /\ run = prev

\* C17 witness: a list of a run and an object of another class was handed
\* over and None came back
C17_Witness ==
    /\ lastOp.name = "concatTimingRuns"
    /\ Len(given.args) = 2
    /\ given.args[1].class_type = "TimingRun"
    /\ given.args[2].class_type = "Files"
    /\ lastOp.ret = "None"
\* the device timestamps of a run follow its time axis
UnixFollowsTime(self) ==
    \A i \in 1..Len(self.time) :
        self.unix_time[i] - self.unix_time[1] = (self.time[i] - self.time[1]) * SecondsPerTick

\* C18: in the result of concatTimingRuns the device timestamps stay
\* consistent with the time axis: if every run of the list satisfies
\* unix_time[i] - unix_time[0] = (time[i] - time[0]) * 86400, so does the
\* merged run.
C18_ConcatUnixTime ==
    (/\ ConcatDone
     /\ \A j \in 1..Len(given.args) : UnixFollowsTime(given.args[j]))
    => UnixFollowsTime(run)
\* C13: concatTimingRuns and linspaceTime neither alias nor mutate what they
\* are given: after the call every run handed over has the arrays, the cursor
\* and the accumulators it had before, and an in-place operation on the
\* object returned afterwards (a setter, a shift, an insert, a delete)
\* changes none of them.
C13_InputsUntouched == (given.ret = "TimingRun") => inputs = given.args

\* C13 witness: two runs were merged and the offsets of the object returned
\* were then shifted in place
C13_Witness ==
    /\ given.ret = "TimingRun"
    /\ Len(given.args) = 2
    /\ prev.offset = given.args[1].offset \o given.args[2].offset
    /\ lastOp.name = "ShiftOffset"
    /\ run.offset # prev.offset
    /\ run.original_data.offset = run.offset

\* the last call was a linspaceTime
LinspaceCalled == lastOp.name = "linspaceTime" /\ Len(given.args) = 1

\* the last call was a linspaceTime that resampled the run
LinspaceDone == LinspaceCalled /\ lastOp.ret = "resampled"

\* C14: linspaceTime with n = 1 reports the scale as too coarse for every run
\* of two or more samples, whatever its spacing, and the object handed back
\* has the time and the offset of the run.
C14_MultiplierOne ==
    (/\ LinspaceCalled
     /\ IsNumber(lastOp.args[1])
     /\ Abs(lastOp.args[1].val) = 1
     /\ Len(given.args[1].time) >= 2)
    => /\ lastOp.ret \in {"too small: loss of data", "too small: neighbors"}
       /\ run.time = given.args[1].time
       /\ run.offset = given.args[1].offset

\* C14 witness: an evenly spaced run of four samples was resampled with n = 1
C14_Witness ==
    /\ LinspaceCalled
    /\ lastOp.args[1] = PyInt(1)
    /\ given.args[1].time = <<0, Day, 2 * Day, 3 * Day>>
    /\ lastOp.ret = "too small: neighbors"
    /\ run.time = <<0, Day, 2 * Day, 3 * Day>>

\* the fraction x is the integer ratio num / den, den > 0
IsRatio(x, num, den) == x.den > 0 /\ x.num * den = num * x.den

\* slot s of the resampled run is as near to time t as any slot
NearestSlot(s, t) ==
    \A k \in 1..Len(run.time) :
        LET a == run.time[s]
            b == run.time[k]
        IN Abs(a.num - t * a.den) * b.den <= Abs(b.num - t * b.den) * a.den

\* between two consecutive slots of the set A the offsets of the resampled
\* run lie on the straight line through the offsets at the two slots
OnLines(A) ==
    \A a \in A, b \in A :
        (a < b /\ \A c \in A : ~(a < c /\ c < b)) =>
            \A m \in (a + 1)..(b - 1) :
                /\ run.offset[a].den = 1
                /\ run.offset[b].den = 1
                /\ IsRatio(run.offset[m],
                           run.offset[a].num * (b - a)
                               + (run.offset[b].num - run.offset[a].num) * (m - a),
                           b - a)

\* samples i, i+1, ... of the run have slots of their own outside the set
\* used, each a nearest slot that carries the offset of its sample, and
\* between the slots of all samples the offsets lie on straight lines
RECURSIVE Anchored(_, _)
Anchored(i, used) ==
    IF i > Len(given.args[1].time) THEN OnLines(used)
    ELSE \E s \in (1..Len(run.time)) \ used :
            /\ NearestSlot(s, given.args[1].time[i])
            /\ run.offset[s] = Float(given.args[1].offset[i], 1)
            /\ Anchored(i + 1, used \cup {s})

\* C15: when linspaceTime resamples a run of L samples with multiplier n, the
\* time and the offset of the result have L*n entries, the times evenly
\* spaced from time[0] to time[-1]; L slots, for each sample a slot nearest
\* to it, carry the offsets of the samples; and every slot between two
\* consecutive such slots carries the offset on the straight line between
\* them (four evenly spaced samples and n = 3: 12 points, 4 of them the
\* samples).
C15_Resampled ==
    LinspaceDone =>
        LET in == given.args[1]
            L == Len(in.time)
            N == L * Abs(lastOp.args[1].val)
        IN /\ Len(run.time) = N
           /\ Len(run.offset) = N
           /\ \A j \in 1..N :
                 IF N = 1 THEN IsRatio(run.time[j], in.time[1], 1)
                 ELSE IsRatio(run.time[j],
                              in.time[1] * (N - 1) + (j - 1) * (in.time[L] - in.time[1]),
                              N - 1)
           /\ Anchored(1, {})

\* C15 witness: four evenly spaced samples were resampled with n = 3, and a
\* slot between the first two samples carries an offset between theirs
C15_Witness ==
    /\ LinspaceDone
    /\ lastOp.args[1] = PyInt(3)
    /\ given.args[1].time = <<0, Day, 2 * Day, 3 * Day>>
    /\ given.args[1].offset = <<0, 3, 6, 3>>
    /\ Len(run.time) = 12
    /\ run.offset[1] = Float(0, 1)
    /\ run.offset[2] = Float(3, 4)
    /\ run.offset[5] = Float(3, 1)
    /\ run.offset[12] = Float(3, 1)

\* C16: the object returned by a linspaceTime that resampled keeps the six
\* arrays at one length: comment, unix_time and the two error arrays have as
\* many entries as the new time and offset, len(run) * n.
C16_ResampledSameLength ==
    LinspaceDone =>
        /\ SameLength(run)
        /\ Len(run.comment) = Len(given.args[1].time) * Abs(lastOp.args[1].val)
\* the last call was an InsertPoint with a number for the time and the offset
InsertPointDone ==
    /\ lastOp.name = "InsertPoint"
    /\ IsNumber(lastOp.args[1])
    /\ IsNumber(lastOp.args[2])

\* new is old with v put in at index k
InsertedAt(new, old, k, v) ==
    /\ Len(new) = Len(old) + 1
    /\ new[k + 1] = v
    /\ \A i \in 1..k : new[i] = old[i]
    /\ \A i \in (k + 1)..Len(old) : new[i + 1] = old[i]

\* C19: InsertPoint(t, o, c) gives the new sample the unix time
\* unix_time[0] + (t - time[0]) * 86400, sample 0 being the first sample
\* before the insertion, at every index it inserts at (index 0 too), and
\* sets the two clock errors of the new sample to 0.
C19_InsertPointUnixTime ==
    InsertPointDone =>
        \E k \in 0..Len(prev.time) :
            /\ InsertedAt(run.time, prev.time, k, lastOp.args[1].val)
            /\ InsertedAt(run.unix_time, prev.unix_time, k,
                          prev.unix_time[1]
                              + (lastOp.args[1].val - prev.time[1]) * SecondsPerTick)
            /\ InsertedAt(run.atomic_clock_error, prev.atomic_clock_error, k, 0)
            /\ InsertedAt(run.ios_clock_offset, prev.ios_clock_offset, k, 0)

\* C20: InsertPoint(t, o, c) with numbers t and o inserts one sample with
\* time t and offset o at index k, the index of the time nearest to t (the
\* first such index on ties): the samples from index k on move right by one
\* and every sample that was there keeps its six values; with a t or an o
\* that is no number nothing is inserted and the store is as it was.
C20_InsertPoint ==
    (lastOp.name = "InsertPoint") =>
        IF IsNumber(lastOp.args[1]) /\ IsNumber(lastOp.args[2])
        THEN \E k \in 0..(Len(prev.time) - 1) :
                /\ \A j \in 1..Len(prev.time) :
                      Abs(lastOp.args[1].val - prev.time[k + 1])
                          <= Abs(lastOp.args[1].val - prev.time[j])
                /\ \A j \in 1..k :
                      Abs(lastOp.args[1].val - prev.time[k + 1])
                          < Abs(lastOp.args[1].val - prev.time[j])
                /\ InsertedAt(run.time, prev.time, k, lastOp.args[1].val)
                /\ InsertedAt(run.offset, prev.offset, k, lastOp.args[2].val)
                /\ \A f \in Fields : InsertedAt(run[f], prev[f], k, run[f][k + 1])
        ELSE run = prev

\* C20 witness: time 0.5 was inserted into a run with the times 0 and 1, as
\* near to the one as to the other, and went in at index 0
C20_Witness ==
    /\ InsertPointDone
    /\ lastOp.args[1] = PyFloat(1)
    /\ prev.time = <<0, Day>>
    /\ run.time = <<1, 0, Day>>
    /\ run.offset[1] = 4
\* ---- claims on the single-point setters, the deletes and the shifts
\* arr is old but for the element at Python index k, which is v
WrittenAt(arr, old, k, v) ==
    /\ Len(arr) = Len(old)
    /\ arr[k + 1] = v
    /\ \A i \in 1..Len(old) : i # k + 1 => arr[i] = old[i]

\* C21: the point_atomic_clock_error and point_ios_clock_offset setters,
\* given a number v on a valid cursor, complete normally and leave
\* atomic_clock_error[cursor] (ios_clock_offset[cursor]) equal to v; no other
\* sample and no other field changes.
C21_ErrorSetters ==
    (/\ lastOp.name \in {"point_atomic_clock_error", "point_ios_clock_offset"}
     /\ IsNumber(lastOp.args[1])
     /\ CursorValid(prev))
    => LET f == IF lastOp.name = "point_atomic_clock_error"
                THEN "atomic_clock_error" ELSE "ios_clock_offset"
       IN /\ lastOp.ret = "None"
          /\ WrittenAt(run[f], prev[f], prev.point_index, lastOp.args[1].val)
          /\ \A g \in Fields \ {f} : run[g] = prev[g]
          /\ run.point_index = prev.point_index
\* C22: a delete whose index lies outside 0 .. length-1 is a no-op, through
\* _deletePoint(index) and through the point_delete setter alike: no sample
\* is removed from any of the six arrays and the cursor keeps its value.
C22_DeleteOutOfRange ==
    (/\ lastOp.name \in {"_deletePoint", "point_delete_set"}
     /\ IsNumber(lastOp.args[1])
     /\ \/ lastOp.args[1].val < 0
        \/ lastOp.args[1].val >= Len(prev.time))
    => /\ \A f \in Fields : run[f] = prev[f]
       /\ run.point_index = prev.point_index
\* the index a delete was asked for: the argument, or the cursor where none
\* was given
DeleteIndex ==
    IF lastOp.name = "_deletePoint" /\ IsNumber(lastOp.args[1])
    THEN lastOp.args[1].val
    ELSE prev.point_index

\* the last call was a _deletePoint, or a read of point_delete, at a valid
\* index of a store of two or more samples
DeleteDone ==
    /\ \/ lastOp.name = "_deletePoint" /\ lastOp.args[1].kind # "str"
       \/ lastOp.name = "point_delete"
    /\ Len(prev.time) >= 2
    /\ DeleteIndex >= 0
    /\ DeleteIndex < Len(prev.time)

\* arr is old without the element at Python index k
RemovedAt(arr, old, k) ==
    /\ Len(arr) = Len(old) - 1
    /\ \A i \in 1..k : arr[i] = old[i]
    /\ \A i \in (k + 2)..Len(old) : arr[i - 1] = old[i]

\* C23: a delete at a valid index k of a store of two or more samples removes
\* sample k, and only it, from all six arrays: every other sample keeps its
\* six values and its place in the order; if k was the last index the cursor
\* becomes the new last index, otherwise the cursor is left as it was.
C23_DeleteValid ==
    DeleteDone =>
        /\ \A f \in Fields : RemovedAt(run[f], prev[f], DeleteIndex)
        /\ run.point_index = IF DeleteIndex = Len(prev.time) - 1
                             THEN Len(run.time) - 1
                             ELSE prev.point_index

\* C23 witness: the last of two samples was deleted with the cursor on it,
\* and the cursor went to the sample that is left
C23_Witness ==
    /\ DeleteDone
    /\ lastOp.name = "_deletePoint"
    /\ Len(prev.time) = 2
    /\ prev.point_index = 1
    /\ DeleteIndex = 1
    /\ run.time = <<prev.time[1]>>
    /\ run.point_index = 0
C27_RowPerSample ==
    (lastOp.name = "Save2csv" /\ lastOp.ret = "saved") =>
        /\ csv.written
        /\ Len(csv.rows) = Len(run.time)
        /\ \A i \in 1..Len(run.time) :
              /\ csv.rows[i][1] = run.time[i]
              /\ csv.rows[i][2] = run.offset[i]
              /\ csv.rows[i][4] = run.unix_time[i]
\* ---------------------------------------------- further claims: linspaceTime
\* the slots of the scale of N points that are nearest to time t of the run
NearSlots(in, N, t) ==
    LET L == Len(in.time)
        d(j) == IF N = 1 THEN Abs(in.time[1] - t)
                ELSE Abs((in.time[1] - t) * (N - 1) + j * (in.time[L] - in.time[1]))
    IN {j \in 0..(N - 1) : \A k \in 0..(N - 1) : d(j) <= d(k)}

\* samples i, i+1, ... of the run can be given nearest slots on the scale of
\* N points that are distinct from, and no neighbours of, each other and
\* the slots of the set used
RECURSIVE ApartFrom(_, _, _, _)
ApartFrom(in, N, i, used) ==
    IF i > Len(in.time) THEN TRUE
    ELSE \E s \in NearSlots(in, N, in.time[i]) :
            /\ \A u \in used : Abs(s - u) >= 2
            /\ ApartFrom(in, N, i + 1, used \cup {s})

\* the nearest slots of the samples of the run are pairwise distinct with
\* no two of them neighbours
NearestApart(in, N) == ApartFrom(in, N, 1, {})

\* the last call was a linspaceTime of a run with a multiplier it accepts
LinspaceTried ==
    /\ LinspaceCalled
    /\ IsNumber(lastOp.args[1])
    /\ Abs(lastOp.args[1].val) > 0

\* C25: linspaceTime returns resampled data only if the nearest grid indices
\* of the samples are pairwise distinct and any two of them differ by at
\* least 2 (and it does resample then, where no sample lies midway between
\* two grid points); in every other case it reports the scale as too coarse
\* and the object it hands back has the time and the offset of the run.
C25_TooCoarse ==
    LinspaceTried =>
        LET in == given.args[1]
            N == Len(in.time) * Abs(lastOp.args[1].val)
        IN /\ lastOp.ret = "resampled" => NearestApart(in, N)
           /\ (/\ NearestApart(in, N)
               /\ \A i \in 1..Len(in.time) : Cardinality(NearSlots(in, N, in.time[i])) = 1)
              => lastOp.ret = "resampled"
           /\ lastOp.ret # "resampled" =>
                 /\ lastOp.ret \in {"too small: loss of data", "too small: neighbors"}
                 /\ run.time = in.time
                 /\ run.offset = in.offset

\* C25 witness: with n = 2 two samples of a run that spans some time fell on
\* one grid point, and the run came back as it was
C25_Witness ==
    /\ LinspaceTried
    /\ lastOp.args[1] = PyInt(2)
    /\ lastOp.ret = "too small: loss of data"
    /\ Len(given.args[1].time) = 3
    /\ given.args[1].time[1] = given.args[1].time[2]
    /\ given.args[1].time[2] < given.args[1].time[3]
    /\ ~NearestApart(given.args[1], 6)
    /\ run.time = given.args[1].time
    /\ run.offset = given.args[1].offset
\* the placeholder comment of linspaceTime
Placeholder == <<"i", "n", "s", "e", "r", "t", "e", "d">>

\* C26: in the object returned by a linspaceTime that resampled, the comment
\* read at every grid slot that is not the nearest slot of a sample of the
\* run is the placeholder comment, and the comment read at the nearest slot
\* of a sample is the comment of that sample.
C26_ResampledComments ==
    LinspaceDone =>
        LET in == given.args[1]
            N == Len(in.time) * Abs(lastOp.args[1].val)
        IN /\ Len(run.comment) = N
           /\ \A s \in 1..N :
                 /\ (\A i \in 1..Len(in.time) : s - 1 \notin NearSlots(in, N, in.time[i]))
                    => run.comment[s] = Placeholder
                 /\ \A i \in 1..Len(in.time) :
                       NearSlots(in, N, in.time[i]) = {s - 1}
                       => run.comment[s] = in.comment[i]

\* C28: after a linspaceTime that resampled, every grid slot of the result
\* holds a defined offset: none is left at NaN, also not for a run of one
\* sample with n >= 2 or after the last anchor.
C28_NoUnsetOffset ==
    LinspaceDone => \A j \in 1..Len(run.offset) : run.offset[j] # NaN
\* ------------------------------------------------ claims on shifts and edits
\* C29: however ShiftOffset calls are interleaved with point edits
\* (InsertPoint, point_insert, the deletes, the point_offset setter), the
\* accumulator is the sum of the values shifted by since the last
\* ShiftOffsetReset; ShiftOffsetReset subtracts that sum from every sample
\* present, also from those inserted or overwritten after the shifts, and
\* zeroes the accumulator; a second ShiftOffsetReset in a row changes nothing.
C29_ShiftOffsetReset ==
    /\ run.offset_shifted = applied.sum
    /\ lastOp.name = "ShiftOffsetReset" =>
          /\ run.offset_shifted = 0
          /\ Len(run.offset) = Len(prev.offset)
          /\ \A i \in 1..Len(run.offset) :
                run.offset[i] = prev.offset[i] - prev.offset_shifted
          /\ applied.resets = 2 => run = prev

\* C29 witness: offsets were shifted, then a point was inserted, deleted or
\* given an offset, and the reset took the sum off every sample
C29_Witness ==
    /\ lastOp.name = "ShiftOffsetReset"
    /\ applied.edited
    /\ prev.offset_shifted # 0
    /\ Len(prev.offset) > 1
    /\ \A i \in 1..Len(run.offset) : run.offset[i] = prev.offset[i] - prev.offset_shifted
    /\ run.offset_shifted = 0

\* -------------------------------------------------------- claims on Files
\* C30: in a Files object every value that is an index into the file list of
\* the selected watch is accepted by file_index; after any assignments to
\* watch_index and file_index the selected file_index is an index into the
\* file list of the selected watch; and TimingRun(watch_index = w,
\* file_index = f) with f an index into the file list of watch w selects
\* file f of watch w, however many watches there are.
C30_FileIndexValid ==
    /\ files.file_index >= 0
    /\ files.file_index < Len(Files_files(files))
    /\ (/\ lastOp.name = "file_index"
        /\ IsNumber(lastOp.args[1])
        /\ lastOp.args[1].val >= 0
        /\ lastOp.args[1].val < Len(Files_files(files)))
       => files.file_index = lastOp.args[1].val
    /\ (/\ lastOp.name = "TimingRun"
        /\ IsNumber(lastOp.args[1])
        /\ IsNumber(lastOp.args[2])
        /\ lastOp.args[1].val >= 0
        /\ lastOp.args[1].val < Len(files.watch_files)
        /\ lastOp.args[2].val >= 0
        /\ lastOp.args[2].val < Len(files.watch_files[lastOp.args[1].val + 1]))
       => /\ lastOp.ret = "loaded"
          /\ file = FileOf(lastOp.args[1].val, lastOp.args[2].val)
====
